---- MODULE Spec2Model ----
(***************************************************************************)
(* A model of server.py: the tool estimate_real_estate_investment and its  *)
(* helper get_auth_headers.                                                *)
(*                                                                         *)
(* server.py imports only FastMCP (lines 1-3).  The names os, base64 and   *)
(* httpx that its functions use are bound by no statement of the file, so  *)
(* none of them resolves: the variable `names` holds the free names that    *)
(* resolve, and it is empty.  The functions are modelled as their text     *)
(* reads, with the set of resolving names as a parameter, and the state    *)
(* machine runs them with `names`.                                         *)
(*                                                                         *)
(* The tool is a coroutine.  Its text suspends in two places: on           *)
(* client.post (line 143), and on the close of the client when the         *)
(* `async with` of line 142 is left with a connection still in its pool.   *)
(* An invocation that got there would take up to three steps: Call, up to  *)
(* the await of client.post; Resume, from the arrival of the answer        *)
(* through lines 149-150 to the close; Return, from the end of the close   *)
(* through the except clauses to the return.  As the file is written no    *)
(* invocation gets there: line 140 raises NameError inside the try         *)
(* statement, the except clause of line 152 raises NameError in turn, and  *)
(* the invocation ends within its Call step.  Resume and Return are        *)
(* defined, from lines 142-160, but are no steps of Next.                  *)
(***************************************************************************)
EXTENDS Integers, Sequences, FiniteSets, TLC

\* Number of invocations that may be live at once.
MaxCalls == 2

-----------------------------------------------------------------------------
(* Python values: t is the type and v what the value holds, an int's     *)
(* number, the text of a str, the literal of a float, the items of a dict. *)

EmptyMap == [k \in {} |-> ""]

None == [t |-> "NoneType", v |-> 0]
PyInt(i) == [t |-> "int", v |-> i]
PyFloat(lit) == [t |-> "float", v |-> lit]
PyStr(str) == [t |-> "str", v |-> str]
PyDict(items) == [t |-> "dict", v |-> items]
PyList == [t |-> "list", v |-> <<>>]

\* Python truthiness of None and of a str: `not v`.
Not(v) == v.t = "NoneType" \/ (v.t = "str" /\ v.v = "")

-----------------------------------------------------------------------------
(* Exceptions: the class, str(e), and the response attribute if any.       *)

NoExc == [cls |-> "", msg |-> "", has_response |-> FALSE, status_code |-> 0]

NameError(name) ==
    [cls |-> "NameError", msg |-> "name '" \o name \o "' is not defined",
     has_response |-> FALSE, status_code |-> 0]

\* The classes of httpx that derive from httpx.HTTPError.
HTTPErrorClasses == {"HTTPStatusError", "ConnectError", "ReadTimeout"}

-----------------------------------------------------------------------------
(* Text: ord() of the characters used, UTF-8 and Base64.                   *)

\* The characters 0-9 and : (codes 48..58), A-Z (65..90) and a-z (97..122).
Digits == "0123456789:"
Upper == "ABCDEFGHIJKLMNOPQRSTUVWXYZ"
Lower == "abcdefghijklmnopqrstuvwxyz"

IndexIn(table, c) == CHOOSE i \in 1..Len(table) : SubSeq(table, i, i) = c
Has(table, c) == \E i \in 1..Len(table) : SubSeq(table, i, i) = c

ord(c) ==
    IF Has(Digits, c) THEN 47 + IndexIn(Digits, c)
    ELSE IF Has(Upper, c) THEN 64 + IndexIn(Upper, c)
    ELSE 96 + IndexIn(Lower, c)

utf8(cp) ==
    IF cp < 128 THEN <<cp>>
    ELSE IF cp < 2048 THEN <<192 + (cp \div 64), 128 + (cp % 64)>>
    ELSE <<224 + (cp \div 4096), 128 + ((cp \div 64) % 64), 128 + (cp % 64)>>

\* str.encode(): the UTF-8 bytes of the characters from position i on.
RECURSIVE encode_from(_, _)
encode_from(str, i) ==
    IF i > Len(str) THEN <<>>
    ELSE utf8(ord(SubSeq(str, i, i))) \o encode_from(str, i + 1)

\* (x is the value of str, computed once)
str_encode(str) == CHOOSE r \in {encode_from(x, 1) : x \in {str}} : TRUE

B64Alphabet == "ABCDEFGHIJKLMNOPQRSTUVWXYZabcdefghijklmnopqrstuvwxyz0123456789+/"

B64Char(v) == SubSeq(B64Alphabet, v + 1, v + 1)

\* base64.b64encode(b).decode(): the bytes from position i on, three at a time.
RECURSIVE b64_from(_, _)
b64_from(b, i) ==
    IF i > Len(b) THEN ""
    ELSE IF i = Len(b) THEN
        B64Char(b[i] \div 4) \o B64Char((b[i] % 4) * 16) \o "=="
    ELSE IF i + 1 = Len(b) THEN
        B64Char(b[i] \div 4) \o B64Char((b[i] % 4) * 16 + (b[i + 1] \div 16))
            \o B64Char((b[i + 1] % 16) * 4) \o "="
    ELSE
        B64Char(b[i] \div 4) \o B64Char((b[i] % 4) * 16 + (b[i + 1] \div 16))
            \o B64Char((b[i + 1] % 16) * 4 + (b[i + 2] \div 64))
            \o B64Char(b[i + 2] % 64)
            \o b64_from(b, i + 3)

\* (x is the value of b, computed once)
b64encode(b) == CHOOSE r \in {b64_from(x, 1) : x \in {b}} : TRUE

-----------------------------------------------------------------------------
VARIABLES
    names,      \* the free names of server.py that resolve: none does
    module,     \* "unloaded", "loaded" or "failed"
    environ,    \* os.environ, restricted to the two variables read
    calls       \* the live invocations of the tool, in the order they were called

vars == <<names, module, environ, calls>>

\* The names the two functions use and the file does not bind.
FreeNames == {"os", "base64", "httpx"}

EnvKeys == {"API_USERNAME", "API_PASSWORD"}

\* os.getenv(key): None when unset.
os_getenv(env, key) == IF key \in DOMAIN env THEN PyStr(env[key]) ELSE None

-----------------------------------------------------------------------------
(* get_auth_headers.  A call either returns a value or raises.             *)

Returned(v) == [raised |-> FALSE, exc |-> NoExc, value |-> v]
Raised(e) == [raised |-> TRUE, exc |-> e, value |-> EmptyMap]

\* The environment of a process started with neither variable set.
StartEnviron == [k \in {} |-> ""]

get_auth_headers(ns, env) ==
    IF "os" \notin ns THEN Raised(NameError("os"))
    ELSE LET username == os_getenv(env, "API_USERNAME")
             password == os_getenv(env, "API_PASSWORD")
         IN  IF Not(username) \/ Not(password) THEN Returned(EmptyMap)
             ELSE IF "base64" \notin ns THEN Raised(NameError("base64"))
             ELSE Returned("Authorization" :>
                     ("Basic " \o b64encode(str_encode(username.v \o ":" \o password.v))))

-----------------------------------------------------------------------------
(* The parameters of estimate_real_estate_investment and its payload.      *)

Defaults ==
    [purchase_price |-> PyFloat("50000.0"),
     notary_rate |-> PyFloat("0.08"),
     renovation |-> PyFloat("10000.0"),
     furniture |-> PyFloat("0.0"),
     agency_fees |-> PyFloat("0.0"),
     rent |-> PyFloat("500.0"),
     vacancy_months |-> PyFloat("0.5"),
     management_pct |-> PyFloat("0.0"),
     copro_charges |-> PyFloat("10.0"),
     ll_insurance |-> PyFloat("10.0"),
     property_tax |-> PyFloat("500.0"),
     other_annual |-> PyFloat("0.0"),
     building_years |-> PyInt(30),
     furniture_years |-> PyInt(7),
     land_share |-> PyFloat("0.15"),
     loan_years |-> PyInt(20),
     loan_rate |-> PyFloat("0.035"),
     loan_insurance_rate |-> PyFloat("0.002"),
     down_payment |-> PyFloat("5000.0"),
     target_monthly_cf |-> PyFloat("0.0"),
     resale_years |-> None,
     resale_price |-> None,
     api_base_url |-> PyStr("https://estimation-immo.ams-investissements.fr")]

\* A slip: renovation is sent under the furniture key as well.
payload_literal_swapped(a) ==
    [k \in {"purchasePrice", "notaryRate", "renovation", "furniture", "agencyFees",
            "rent", "vacancyMonths", "managementPct", "coproCharges", "llInsurance",
            "propertyTax", "otherAnnual", "buildingYears", "furnitureYears",
            "landShare", "loanYears", "loanRate", "loanInsuranceRate", "downPayment",
            "targetMonthlyCf", "resaleYears", "resalePrice"} |->
        CASE k = "purchasePrice" -> a.purchase_price
          [] k = "notaryRate" -> a.notary_rate
          [] k = "renovation" -> a.renovation
          [] k = "furniture" -> a.renovation
          [] k = "agencyFees" -> a.agency_fees
          [] k = "rent" -> a.rent
          [] k = "vacancyMonths" -> a.vacancy_months
          [] k = "managementPct" -> a.management_pct
          [] k = "coproCharges" -> a.copro_charges
          [] k = "llInsurance" -> a.ll_insurance
          [] k = "propertyTax" -> a.property_tax
          [] k = "otherAnnual" -> a.other_annual
          [] k = "buildingYears" -> a.building_years
          [] k = "furnitureYears" -> a.furniture_years
          [] k = "landShare" -> a.land_share
          [] k = "loanYears" -> a.loan_years
          [] k = "loanRate" -> a.loan_rate
          [] k = "loanInsuranceRate" -> a.loan_insurance_rate
          [] k = "downPayment" -> a.down_payment
          [] k = "targetMonthlyCf" -> a.target_monthly_cf
          [] k = "resaleYears" -> a.resale_years
          [] k = "resalePrice" -> a.resale_price]

\* The dict literal of lines 109-132.
payload_literal(a) ==
    [k \in {"purchasePrice", "notaryRate", "renovation", "furniture", "agencyFees",
            "rent", "vacancyMonths", "managementPct", "coproCharges", "llInsurance",
            "propertyTax", "otherAnnual", "buildingYears", "furnitureYears",
            "landShare", "loanYears", "loanRate", "loanInsuranceRate", "downPayment",
            "targetMonthlyCf", "resaleYears", "resalePrice"} |->
        CASE k = "purchasePrice" -> a.purchase_price
          [] k = "notaryRate" -> a.notary_rate
          [] k = "renovation" -> a.renovation
          [] k = "furniture" -> a.furniture
          [] k = "agencyFees" -> a.agency_fees
          [] k = "rent" -> a.rent
          [] k = "vacancyMonths" -> a.vacancy_months
          [] k = "managementPct" -> a.management_pct
          [] k = "coproCharges" -> a.copro_charges
          [] k = "llInsurance" -> a.ll_insurance
          [] k = "propertyTax" -> a.property_tax
          [] k = "otherAnnual" -> a.other_annual
          [] k = "buildingYears" -> a.building_years
          [] k = "furnitureYears" -> a.furniture_years
          [] k = "landShare" -> a.land_share
          [] k = "loanYears" -> a.loan_years
          [] k = "loanRate" -> a.loan_rate
          [] k = "loanInsuranceRate" -> a.loan_insurance_rate
          [] k = "downPayment" -> a.down_payment
          [] k = "targetMonthlyCf" -> a.target_monthly_cf
          [] k = "resaleYears" -> a.resale_years
          [] k = "resalePrice" -> a.resale_price]

\* A slip: the comprehension keeps every item.
strip_none_kept(p) == p

\* {k: v for k, v in payload.items() if v is not None}
strip_none(p) == [k \in {x \in DOMAIN p : p[x] # None} |-> p[k]]

assemble_payload(a) == strip_none(payload_literal(a))

-----------------------------------------------------------------------------
(* The request: headers, URL, and what can come back for it.               *)

\* headers = {"Content-Type": ...}; headers.update(get_auth_headers())
build_headers(ns, env) ==
    LET auth == get_auth_headers(ns, env)
    IN  IF auth.raised THEN auth
        ELSE Returned(auth.value @@ ("Content-Type" :> "application/json"))

NoReq == [method |-> "", url |-> "", json |-> EmptyMap, headers |-> EmptyMap,
          timeout |-> ""]

\* client.post(f"{api_base_url}/api/estimate", json=, headers=, timeout=30.0)
post_request(a, body, headers) ==
    [method |-> "POST", url |-> a.api_base_url.v \o "/api/estimate",
     json |-> body, headers |-> headers, timeout |-> "30.0"]

\* Bodies a remote service may answer with.
BodyEstimate == "{\"tri\": 0.07, \"noi\": 4200}"
BodyRefused == "{\"error\": \"invalid rent\", \"status_code\": 422}"
BodyList == "[]"
BodyHtml == "<html>It works</html>"
BodyEmpty == ""

\* response.json() on the bodies above.
response_json(body) ==
    CASE body = BodyEstimate ->
            Returned(PyDict("tri" :> PyFloat("0.07") @@ "noi" :> PyInt(4200)))
      [] body = BodyRefused ->
            Returned(PyDict("error" :> PyStr("invalid rent") @@ "status_code" :> PyInt(422)))
      [] body = BodyList -> Returned(PyList)
      [] body = BodyHtml ->
            Raised([cls |-> "JSONDecodeError",
                    msg |-> "Expecting value: line 1 column 1 (char 0)",
                    has_response |-> FALSE, status_code |-> 0])
      [] body = BodyEmpty ->
            Raised([cls |-> "JSONDecodeError",
                    msg |-> "Expecting value: line 1 column 1 (char 0)",
                    has_response |-> FALSE, status_code |-> 0])

\* Response.is_success, which raise_for_status tests.
is_success(status_code) == status_code >= 200 /\ status_code <= 299

\* str() of a non-negative int.
RECURSIVE str_int(_)
str_int(n) ==
    IF n < 10 THEN SubSeq(Digits, n + 1, n + 1)
    ELSE str_int(n \div 10) \o SubSeq(Digits, (n % 10) + 1, (n % 10) + 1)

\* The error type raise_for_status names, by the class of the code.
error_type(status_code) ==
    CASE status_code \div 100 = 1 -> "Informational response"
      [] status_code \div 100 = 3 -> "Redirect response"
      [] status_code \div 100 = 4 -> "Client error"
      [] status_code \div 100 = 5 -> "Server error"
      [] OTHER -> "Invalid status code"

\* Response.has_redirect_location; location is the Location header, "" if none.
has_redirect_location(status_code, location) ==
    status_code \in {301, 302, 303, 307, 308} /\ location # ""

\* The exception of raise_for_status for a response that is no success, to the
\* request of the given url; reason is the phrase of the status line.
HTTPStatusError(status_code, reason, url, location) ==
    [cls |-> "HTTPStatusError",
     msg |-> error_type(status_code) \o " '" \o str_int(status_code) \o " "
             \o reason \o "' for url '" \o url \o "'\n"
             \o (IF has_redirect_location(status_code, location)
                 THEN "Redirect location: '" \o location \o "'\n" ELSE "")
             \o "For more information check: "
             \o "https://developer.mozilla.org/en-US/docs/Web/HTTP/Status/"
             \o str_int(status_code),
     has_response |-> TRUE, status_code |-> status_code]

ConnectError ==
    [cls |-> "ConnectError", msg |-> "All connection attempts failed",
     has_response |-> FALSE, status_code |-> 0]

ReadTimeout ==
    [cls |-> "ReadTimeout", msg |-> "", has_response |-> FALSE, status_code |-> 0]

\* What comes back for a request: an exception of client.post, or a response
\* with the code and the reason phrase of its status line, its body and its
\* Location header ("" if it has none).
NoOutcome ==
    [kind |-> "none", exc |-> NoExc, status_code |-> 0, reason |-> "", body |-> "",
     location |-> ""]

Failed(e) ==
    [kind |-> "exception", exc |-> e, status_code |-> 0, reason |-> "", body |-> "",
     location |-> ""]

Response(status_code, reason, body, location) ==
    [kind |-> "response", exc |-> NoExc, status_code |-> status_code,
     reason |-> reason, body |-> body, location |-> location]

Outcomes ==
    {Failed(ConnectError), Failed(ReadTimeout)}
    \cup {Response(200, "OK", b, "") : b \in {BodyEstimate, BodyList, BodyHtml}}
    \cup {Response(201, "Created", BodyEstimate, ""),
          Response(301, "Moved Permanently", BodyEmpty, "/elsewhere"),
          Response(500, "Internal Server Error", BodyRefused, "")}

\* Whether the client holds a connection in its pool when it is closed: the
\* connection of a response may be kept alive or not, that of a failed request
\* is gone.
Pooled(o) == IF o.kind = "response" THEN BOOLEAN ELSE {FALSE}

-----------------------------------------------------------------------------
(* The two except clauses, lines 152-160.                                  *)

Ended(how, e, out, v) == [via |-> how, failure |-> e, raised |-> out, result |-> v]

\* Lines 153-156.
http_error_result(e) ==
    PyDict("error" :> PyStr("HTTP error occurred: " \o e.msg)
           @@ "status_code" :>
                (IF e.has_response THEN PyInt(e.status_code) ELSE None))

\* Lines 158-160.
other_error_result(e) == PyDict("error" :> PyStr("An error occurred: " \o e.msg))

\* What the try statement does with an exception e raised in its block.  The
\* first clause evaluates httpx.HTTPError before it can match anything.
handle(ns, e) ==
    IF "httpx" \notin ns THEN Ended("uncaught", e, NameError("httpx"), None)
    ELSE IF e.cls \in HTTPErrorClasses
         THEN Ended("http_error", e, NoExc, http_error_result(e))
         ELSE Ended("other_error", e, NoExc, other_error_result(e))

\* What the block of the `async with` leaves it with: a value or an exception.
NoPending == [raised |-> FALSE, exc |-> NoExc, value |-> None]
Value(v) == [raised |-> FALSE, exc |-> NoExc, value |-> v]
Throw(e) == [raised |-> TRUE, exc |-> e, value |-> None]

\* Lines 143-150 once the outcome o of the request to url is known: the
\* exception of client.post, or raise_for_status() and then json().
after_post(url, o) ==
    IF o.kind = "exception" THEN Throw(o.exc)
    ELSE IF ~is_success(o.status_code)
         THEN Throw(HTTPStatusError(o.status_code, o.reason, url, o.location))
         ELSE LET parsed == response_json(o.body)
              IN  IF parsed.raised THEN Throw(parsed.exc) ELSE Value(parsed.value)

\* Past the `async with`: the value is returned, an exception goes to the except
\* clauses.
after_with(ns, w) ==
    IF w.raised THEN handle(ns, w.exc)
    ELSE Ended("success", NoExc, NoExc, w.value)

-----------------------------------------------------------------------------
(* An invocation of estimate_real_estate_investment.                       *)
(*   pc       "awaiting" (suspended on client.post), "closing" (suspended  *)
(*            on the close of the client) or "done"                        *)
(*   args     its parameters                                               *)
(*   payload  its local payload, after line 135                            *)
(*   remote   what the remote service has in store for a request of this   *)
(*            invocation                                                   *)
(*   req      the request in flight, its json the payload                  *)
(*   nreq     the number of requests it has sent                           *)
(*   outcome  what came back for its request                               *)
(*   pending  what the `async with` block was left with                    *)
(*   via      how it ended: "success", "http_error", "other_error" or      *)
(*            "uncaught"                                                   *)
(*   failure  the exception raised inside the try block                    *)
(*   raised   the exception propagated to the caller                       *)
(*   result   the value returned to the caller                             *)

Frame ==
    [pc |-> "called", args |-> Defaults, payload |-> EmptyMap, remote |-> NoOutcome,
     req |-> NoReq, nreq |-> 0, outcome |-> NoOutcome, pending |-> NoPending,
     via |-> "", failure |-> NoExc, raised |-> NoExc, result |-> None]

finish(st, e) ==
    [st EXCEPT !.pc = "done", !.req = NoReq, !.pending = NoPending,
               !.via = e.via, !.failure = e.failure, !.raised = e.raised,
               !.result = e.result]

\* The rest of the call once the headers, or the exception of their
\* construction, are known as h.
send(ns, a, h) ==
    LET body == assemble_payload(a)
        st == [Frame EXCEPT !.args = a, !.payload = body]
    IN  IF h.raised THEN finish(st, handle(ns, h.exc))
        ELSE IF "httpx" \notin ns THEN finish(st, handle(ns, NameError("httpx")))
        ELSE [st EXCEPT !.pc = "awaiting", !.req = post_request(a, body, h.value),
                        !.nreq = 1]

\* Lines 109-148: from the call to the await of client.post.
\* (h is the value of build_headers, computed once)
start(ns, env, a) ==
    CHOOSE st \in {send(ns, a, h) : h \in {build_headers(ns, env)}} : TRUE

\* The invocation st left the `async with` block with w and awaits the close.
close(st, w) == [st EXCEPT !.pc = "closing", !.req = NoReq, !.pending = w]

\* Lines 152-160 and the return, once the client is closed.
\* (e is the value of after_with, computed once)
on_closed(ns, st) ==
    CHOOSE r \in {finish(st, e) : e \in {after_with(ns, st.pending)}} : TRUE

\* The `async with` is left with w: the close suspends if a connection is
\* pooled, and the invocation runs on to its return if none is.
leave(ns, st, w, pooled) ==
    IF pooled THEN close(st, w) ELSE on_closed(ns, close(st, w))

\* Lines 143-150: from the outcome of the request to the end of the
\* `async with` block, and on through lines 152-160 if the close does not
\* suspend.  (w is the value of after_post, computed once)
on_outcome(ns, st, o, pooled) ==
    CHOOSE r \in {leave(ns, [st EXCEPT !.outcome = o], w, pooled) :
                  w \in {after_post(st.req.url, o)}} : TRUE

deliver(cs, p, o, pooled) == [cs EXCEPT ![p] = on_outcome(names, cs[p], o, pooled)]

Remove(cs, p) == SubSeq(cs, 1, p - 1) \o SubSeq(cs, p + 1, Len(cs))

-----------------------------------------------------------------------------
(* Inputs.                                                                 *)

Inputs ==
    {Defaults,
     [Defaults EXCEPT !.resale_years = PyInt(10), !.resale_price = PyFloat("80000.0"),
                      !.api_base_url = PyStr("http://localhost:9000")],
     [Defaults EXCEPT !.purchase_price = None, !.resale_price = PyFloat("80000.0")]}

EnvValues(key) ==
    IF key = "API_USERNAME" THEN {"alice", "bob"} ELSE {"", "secret"}

-----------------------------------------------------------------------------
(* The state machine.                                                      *)

\* Lines 1-3 bind FastMCP and mcp, and none of FreeNames.
Init ==
    /\ names = {}
    /\ module = "unloaded"
    /\ environ = StartEnviron
    /\ calls = <<>>

\* The module is executed.  The def statement of line 31 has the annotation
\* Optional[int], and Optional is not bound either: an interpreter that evaluates
\* annotations at the def fails there, one that defers them defines the tool.
Load ==
    /\ module = "unloaded"
    /\ module' \in {"loaded", "failed"}
    /\ UNCHANGED <<names, environ, calls>>

\* The process environment changes.
SetEnv(key, value) ==
    /\ environ' = (key :> value) @@ environ
    /\ environ' # environ
    /\ UNCHANGED <<names, module, calls>>

DelEnv(key) ==
    /\ key \in DOMAIN environ
    /\ environ' = [k \in DOMAIN environ \ {key} |-> environ[k]]
    /\ UNCHANGED <<names, module, calls>>

\* The tool is called with parameters a, while the remote service has the
\* answer o in store for a request.
Call(a, o) ==
    /\ module = "loaded"
    /\ Len(calls) < MaxCalls
    /\ calls' = Append(calls, [start(names, environ, a) EXCEPT !.remote = o])
    /\ UNCHANGED <<names, module, environ>>

\* The answer to the request of invocation p arrives, and p runs on to the
\* close of its client, which holds a pooled connection or not.
Resume(p, pooled) ==
    /\ p \in DOMAIN calls
    /\ calls[p].pc = "awaiting"
    /\ pooled \in Pooled(calls[p].remote)
    /\ calls' = deliver(calls, p, calls[p].remote, pooled)
    /\ UNCHANGED <<names, module, environ>>

\* The client of invocation p is closed, and p runs on to its return.
Return(p) ==
    /\ p \in DOMAIN calls
    /\ calls[p].pc = "closing"
    /\ calls' = [calls EXCEPT ![p] = on_closed(names, calls[p])]
    /\ UNCHANGED <<names, module, environ>>

\* The caller has taken what invocation p returned or raised.
Collect(p) ==
    /\ p \in DOMAIN calls
    /\ calls[p].pc = "done"
    /\ calls' = Remove(calls, p)
    /\ UNCHANGED <<names, module, environ>>

\* The steps of the program.  No invocation is ever suspended, on its request
\* or on the close of its client, so none ever takes Resume or Return.
Next ==
    \/ Load
    \/ \E key \in EnvKeys : \E value \in EnvValues(key) : SetEnv(key, value)
    \/ \E key \in EnvKeys : DelEnv(key)
    \/ \E a \in Inputs : \E o \in Outcomes : Call(a, o)
    \/ \E p \in 1..MaxCalls : Collect(p)

Spec == Init /\ [][Next]_vars

-----------------------------------------------------------------------------
(* Properties.                                                             *)

Live == DOMAIN calls

StartsWith(str, prefix) ==
    Len(str) >= Len(prefix) /\ SubSeq(str, 1, Len(prefix)) = prefix

\* The outcome is a connection error, a timeout or a response that is not 2xx.
TransportFailure(o) ==
    \/ o.kind = "exception" /\ o.exc.cls \in {"ConnectError", "ReadTimeout"}
    \/ o.kind = "response" /\ (o.status_code < 200 \/ o.status_code > 299)

\* The mapping of section 4.3: local parameter, wire field.
WireNames ==
    {<<"purchase_price", "purchasePrice">>, <<"notary_rate", "notaryRate">>,
     <<"renovation", "renovation">>, <<"furniture", "furniture">>,
     <<"agency_fees", "agencyFees">>, <<"rent", "rent">>,
     <<"vacancy_months", "vacancyMonths">>, <<"management_pct", "managementPct">>,
     <<"copro_charges", "coproCharges">>, <<"ll_insurance", "llInsurance">>,
     <<"property_tax", "propertyTax">>, <<"other_annual", "otherAnnual">>,
     <<"building_years", "buildingYears">>, <<"furniture_years", "furnitureYears">>,
     <<"land_share", "landShare">>, <<"loan_years", "loanYears">>,
     <<"loan_rate", "loanRate">>, <<"loan_insurance_rate", "loanInsuranceRate">>,
     <<"down_payment", "downPayment">>, <<"target_monthly_cf", "targetMonthlyCf">>,
     <<"resale_years", "resaleYears">>, <<"resale_price", "resalePrice">>}

\* The payload of a call that overrides nothing.
DefaultPayload ==
    "purchasePrice" :> PyFloat("50000.0") @@ "notaryRate" :> PyFloat("0.08")
    @@ "renovation" :> PyFloat("10000.0") @@ "furniture" :> PyFloat("0.0")
    @@ "agencyFees" :> PyFloat("0.0") @@ "rent" :> PyFloat("500.0")
    @@ "vacancyMonths" :> PyFloat("0.5") @@ "managementPct" :> PyFloat("0.0")
    @@ "coproCharges" :> PyFloat("10.0") @@ "llInsurance" :> PyFloat("10.0")
    @@ "propertyTax" :> PyFloat("500.0") @@ "otherAnnual" :> PyFloat("0.0")
    @@ "buildingYears" :> PyInt(30) @@ "furnitureYears" :> PyInt(7)
    @@ "landShare" :> PyFloat("0.15") @@ "loanYears" :> PyInt(20)
    @@ "loanRate" :> PyFloat("0.035") @@ "loanInsuranceRate" :> PyFloat("0.002")
    @@ "downPayment" :> PyFloat("5000.0") @@ "targetMonthlyCf" :> PyFloat("0.0")

\* Base64 of "<username>:<password>", written out.
BasicOf(username, password) ==
    CASE username = "alice" /\ password = "secret" -> "Basic YWxpY2U6c2VjcmV0"
      [] username = "bob" /\ password = "secret" -> "Basic Ym9iOnNlY3JldA=="

EnvOr(env, key) == IF key \in DOMAIN env THEN env[key] ELSE ""

\* The headers a request must carry when the environment is env.
HeadersFor(env) ==
    LET username == EnvOr(env, "API_USERNAME")
        password == EnvOr(env, "API_PASSWORD")
    IN  IF username = "" \/ password = ""
        THEN "Content-Type" :> "application/json"
        ELSE "Content-Type" :> "application/json"
             @@ "Authorization" :> BasicOf(username, password)

\* The reply o is a 2xx response with a JSON body.
JsonReply(o) ==
    /\ o.kind = "response"
    /\ o.status_code \in 200..299
    /\ ~response_json(o.body).raised

\* C1: every invocation ends by returning a dictionary; it never propagates an
\* exception to its caller, whatever fails in header construction, in the POST, in
\* the status check or in the parsing of the response.
C1_AlwaysReturnsDict ==
    \A p \in Live :
        calls[p].pc = "done" =>
            /\ calls[p].raised = NoExc
            /\ calls[p].result.t = "dict"

\* C2: an invocation whose HTTP call meets a connection error, a timeout or a
\* non-2xx response returns an error message starting with "HTTP error occurred: "
\* and a status_code that is the response's status when there is a response and
\* None when there is none; the body of a non-2xx response is never returned as a
\* success.
C2_HttpErrorShape ==
    \A p \in Live :
        (calls[p].pc = "done" /\ TransportFailure(calls[p].remote)) =>
            LET o == calls[p].remote
                r == calls[p].result
            IN  /\ calls[p].raised = NoExc
                /\ calls[p].via # "success"
                /\ r.t = "dict"
                /\ {"error", "status_code"} \subseteq DOMAIN r.v
                /\ r.v["error"].t = "str"
                /\ StartsWith(r.v["error"].v, "HTTP error occurred: ")
                /\ r.v["status_code"] =
                       (IF o.kind = "response" THEN PyInt(o.status_code) ELSE None)
                /\ (o.kind = "response" /\ ~response_json(o.body).raised) =>
                       r # response_json(o.body).value

\* C3: an invocation whose POST receives a 2xx response with a JSON body returns
\* exactly the parsed JSON of that response; the reply {"tri": 0.07, "noi": 4200}
\* comes back as that object, with no error or status_code key.
C3_SuccessVerbatim ==
    \A p \in Live :
        LET o == calls[p].remote
        IN  (calls[p].pc = "done" /\ JsonReply(o)) =>
                /\ calls[p].raised = NoExc
                /\ calls[p].result = response_json(o.body).value
                /\ o.body = BodyEstimate =>
                       /\ calls[p].result.t = "dict"
                       /\ DOMAIN calls[p].result.v = {"tri", "noi"}
                       /\ calls[p].result.v["tri"] = PyFloat("0.07")
                       /\ calls[p].result.v["noi"] = PyInt(4200)

\* C4: an invocation that fails with a failure that is not an HTTP-client failure
\* returns exactly {"error": "An error occurred: <message>"}, with no status_code
\* key.
C4_OtherErrorShape ==
    \A p \in Live :
        (/\ calls[p].pc = "done"
         /\ calls[p].failure # NoExc
         /\ calls[p].failure.cls \notin HTTPErrorClasses) =>
            /\ calls[p].raised = NoExc
            /\ calls[p].result =
                   PyDict("error" :> PyStr("An error occurred: " \o calls[p].failure.msg))
            /\ "status_code" \notin DOMAIN calls[p].result.v

\* C5: no key of the payload of an invocation, the one its request carries, has
\* the value None: a parameter passed as None has no wire key in the payload, and
\* a parameter with a value has its wire key with exactly that value.
C5_NoNullInPayload ==
    \A p \in Live :
        LET sent == calls[p].payload
            a == calls[p].args
        IN  /\ \A k \in DOMAIN sent : sent[k] # None
            /\ DOMAIN sent \subseteq {w[2] : w \in WireNames}
            /\ \A w \in WireNames :
                   IF a[w[1]] = None
                   THEN w[2] \notin DOMAIN sent
                   ELSE w[2] \in DOMAIN sent /\ sent[w[2]] = a[w[1]]
            /\ calls[p].pc = "awaiting" => calls[p].req.json = sent

\* An invocation has assembled the payload of a call that passed purchase_price
\* as None, left resale_years out and gave resale_price.
C5_Witness ==
    \E p \in Live :
        /\ calls[p].args.purchase_price = None
        /\ calls[p].args.resale_years = None
        /\ calls[p].args.resale_price = PyFloat("80000.0")
        /\ "resalePrice" \in DOMAIN calls[p].payload
        /\ calls[p].payload["resalePrice"] = PyFloat("80000.0")
        /\ "resaleYears" \notin DOMAIN calls[p].payload
        /\ "purchasePrice" \notin DOMAIN calls[p].payload

\* C6, as stated: the payload of a call that overrides no parameter holds exactly
\* the 21 always-present wire fields, each with its documented default, and no
\* other key.
C6_DefaultPayload21 ==
    \A p \in Live :
        calls[p].args = Defaults =>
            /\ calls[p].payload = DefaultPayload
            /\ Cardinality(DOMAIN calls[p].payload) = 21
            /\ DOMAIN calls[p].payload \cap {"resaleYears", "resalePrice", "api_base_url"} = {}

\* C6, amended: the payload of a call that overrides no parameter holds exactly
\* the 20 always-present wire fields, each with its documented default, and no
\* other key.
C6_DefaultPayload ==
    \A p \in Live :
        calls[p].args = Defaults =>
            /\ calls[p].payload = DefaultPayload
            /\ Cardinality(DOMAIN calls[p].payload) = 20
            /\ DOMAIN calls[p].payload \cap {"resaleYears", "resalePrice", "api_base_url"} = {}

\* An invocation has assembled the payload of a default-only call.
C6_Witness ==
    \E p \in Live :
        /\ calls[p].args = Defaults
        /\ "notaryRate" \in DOMAIN calls[p].payload
        /\ calls[p].payload["notaryRate"] = PyFloat("0.08")

\* C7: get_auth_headers returns the empty header set, without raising, whenever
\* API_USERNAME or API_PASSWORD is unset or empty, and exactly the one header
\* Authorization: Basic base64("<username>:<password>") whenever both are
\* non-empty.
C7_AuthHeaders ==
    module = "loaded" =>
        LET r == get_auth_headers(names, environ)
            username == EnvOr(environ, "API_USERNAME")
            password == EnvOr(environ, "API_PASSWORD")
        IN  /\ ~r.raised
            /\ (username = "" \/ password = "") => r.value = EmptyMap
            /\ (username # "" /\ password # "") =>
                   r.value = ("Authorization" :> BasicOf(username, password))

RequestFailure(o) ==
    \/ TransportFailure(o)
    \/ o.kind = "response" /\ o.status_code \in 200..299 /\ response_json(o.body).raised

\* C9: an invocation sends at most one request, a POST to
\* <api_base_url>/api/estimate, and never retries: one whose request failed has
\* sent that one request and returned one error result.
C9_SingleRequest ==
    \A p \in Live :
        /\ calls[p].nreq <= 1
        /\ calls[p].pc = "awaiting" =>
               /\ calls[p].nreq = 1
               /\ calls[p].req.method = "POST"
               /\ calls[p].req.url = calls[p].args.api_base_url.v \o "/api/estimate"
        /\ (calls[p].pc = "done" /\ RequestFailure(calls[p].remote)) =>
               /\ calls[p].nreq = 1
               /\ calls[p].raised = NoExc
               /\ calls[p].result.t = "dict"
               /\ "error" \in DOMAIN calls[p].result.v

\* C10: invocations are independent.  Each suspends at its outbound request and
\* runs on when the answer arrives; while one is suspended, on its request or on
\* the close of its client, another can be called, any other one suspended on its
\* request can run on, and any other one suspended on the close can return,
\* whatever the order they were called in; and a step changes at most one
\* invocation and leaves the others as they are, in their order.
C10_Suspends ==
    Len(calls') = Len(calls) + 1 => calls'[Len(calls')].pc = "awaiting"

C10_Suspended ==
    LET suspended == {p \in Live : calls[p].pc \in {"awaiting", "closing"}}
    IN  /\ (suspended # {} /\ Len(calls) < MaxCalls) =>
               ENABLED (\E a \in Inputs : \E o \in Outcomes : Call(a, o))
        /\ Cardinality(suspended) > 1 =>
               \A q \in suspended :
                   IF calls[q].pc = "awaiting"
                   THEN ENABLED (\E pooled \in BOOLEAN : Resume(q, pooled))
                   ELSE ENABLED Return(q)

C10_OneAtATime ==
    /\ Len(calls') = Len(calls) =>
           Cardinality({p \in Live : calls'[p] # calls[p]}) <= 1
    /\ Len(calls') = Len(calls) + 1 => SubSeq(calls', 1, Len(calls)) = calls
    /\ Len(calls') < Len(calls) =>
           \E p \in Live : calls[p].pc = "done" /\ calls' = Remove(calls, p)

====
